---------------------------- MODULE Spec2Model ----------------------------
(***************************************************************************)
(* A model of the Telegram webhook bot of src/main.py: the webhook handler *)
(* telegram_webhook with its awaits as interleaving points, the in-memory  *)
(* CHAT_CONTEXT dictionary, the Drive folder tree built by                 *)
(* build_deal_folders, and the pure functions parse_request, safe_name and *)
(* pick_subfolder_name.                                                    *)
(*                                                                         *)
(* Strings are sequences of characters.  A character is a one-element      *)
(* string; a Cyrillic letter is written "ru_<translit>" (lower case) or    *)
(* "RU_<TRANSLIT>" (upper case), since the module text is ASCII.           *)
(***************************************************************************)
EXTENDS Integers, Sequences, FiniteSets, TLC

VARIABLES
    CHAT_CONTEXT,   \* chat id -> context record (present = FALSE: no entry)
    drive,          \* Drive folders: sequence of [name, parent]; id = index, root = 0
    calls,          \* in-flight slot -> the webhook call in it: position, locals, history
    env,            \* the process environment (TELEGRAM_SECRET_TOKEN)
    arg,            \* input of the pure function under study
    ret             \* its result

vars == <<CHAT_CONTEXT, drive, calls, env, arg, ret>>

---------------------------------------------------------------------------
(* Characters and the str methods the code uses.                           *)

LatLower ==
    <<"a", "b", "c", "d", "e", "f", "g", "h", "i", "j", "k", "l", "m", "n", "o", "p", "q",
      "r", "s", "t", "u", "v", "w", "x", "y", "z">>

LatUpper ==
    <<"A", "B", "C", "D", "E", "F", "G", "H", "I", "J", "K", "L", "M", "N", "O", "P", "Q",
      "R", "S", "T", "U", "V", "W", "X", "Y", "Z">>

CyrLower ==
    <<"ru_a", "ru_b", "ru_v", "ru_g", "ru_d", "ru_e", "ru_zh", "ru_z", "ru_i", "ru_j",
      "ru_k", "ru_l", "ru_m", "ru_n", "ru_o", "ru_p", "ru_r", "ru_s", "ru_t", "ru_u",
      "ru_f", "ru_h", "ru_c", "ru_ch", "ru_sh", "ru_sch", "ru_q", "ru_y", "ru_x",
      "ru_eh", "ru_yu", "ru_ya">>

CyrUpper ==
    <<"RU_A", "RU_B", "RU_V", "RU_G", "RU_D", "RU_E", "RU_ZH", "RU_Z", "RU_I", "RU_J",
      "RU_K", "RU_L", "RU_M", "RU_N", "RU_O", "RU_P", "RU_R", "RU_S", "RU_T", "RU_U",
      "RU_F", "RU_H", "RU_C", "RU_CH", "RU_SH", "RU_SCH", "RU_Q", "RU_Y", "RU_X",
      "RU_EH", "RU_YU", "RU_YA">>

Digits == {"0", "1", "2", "3", "4", "5", "6", "7", "8", "9"}

Range(s) == {s[i] : i \in 1..Len(s)}

LatLowerSet == Range(LatLower)
LatUpperSet == Range(LatUpper)
CyrLowerSet == Range(CyrLower)
CyrUpperSet == Range(CyrUpper)

\* str.lower() on one character
LowerChar(c) ==
    IF c \in LatUpperSet THEN LatLower[CHOOSE i \in 1..Len(LatUpper) : LatUpper[i] = c]
    ELSE IF c \in CyrUpperSet THEN CyrLower[CHOOSE i \in 1..Len(CyrUpper) : CyrUpper[i] = c]
    ELSE c

\* str.lower()
Lower(s) == [i \in 1..Len(s) |-> LowerChar(s[i])]

\* the characters \s matches and str.strip() removes
IsWs(c) == c \in {" ", "\t", "\n"}

\* F(e), with e evaluated once (a LET definition is evaluated at each use)
With(e, F(_)) == CHOOSE r \in {F(v) : v \in {e}} : TRUE

Min(S) == CHOOSE x \in S : \A y \in S : x <= y
Max(S) == CHOOSE x \in S : \A y \in S : x >= y

\* str.strip()
Strip(s) ==
    LET keep == {i \in 1..Len(s) : ~IsWs(s[i])}
    IN  IF keep = {} THEN << >> ELSE SubSeq(s, Min(keep), Max(keep))

\* s[:n]
Prefix(s, n) == IF Len(s) > n THEN SubSeq(s, 1, n) ELSE s

\* s.startswith(sub) at position p (1-based)
HasAt(s, sub, p) ==
    /\ p >= 1
    /\ p + Len(sub) - 1 <= Len(s)
    /\ \A k \in 1..Len(sub) : s[p + k - 1] = sub[k]

\* sub in s
Contains(sub, s) == \E p \in 1..(Len(s) + 1) : HasAt(s, sub, p)

\* the first index >= i that holds no whitespace (Len(s) + 1: none)
SkipWs(s, i) == Min({j \in i..(Len(s) + 1) : j = Len(s) + 1 \/ ~IsWs(s[j])})

---------------------------------------------------------------------------
(* parse_request                                                           *)

S_client == <<"ru_k", "ru_l", "ru_i", "ru_e", "ru_n", "ru_t">>
S_deal == <<"ru_s", "ru_d", "ru_e", "ru_l", "ru_k", "ru_a">>
S_dlya == <<"ru_d", "ru_l", "ru_ya">>
DefaultClient == <<"C", "l", "i", "e", "n", "t">>
DefaultDeal == <<"RU_Z", "ru_a", "ru_p", "ru_r", "ru_o", "ru_s">>
FallbackDeal == <<"D", "e", "a", "l">>

\* the {2,60} of the third pattern and the [:60] of the deal-name fallback
ClassMax == 60
DealPrefix == 60
ClassMin == 2

NoMatch == [found |-> FALSE, g |-> << >>]

\* (.+?)(;|$) from index r: the index of the last character of the shortest
\* group, 0 when there is none.  '.' matches no newline; '$' matches at the
\* end of the string and before a newline that ends it.
GroupEnd(t, r) ==
    LET ends == {e \in r..Len(t) :
                    /\ \A k \in r..e : t[k] # "\n"
                    /\ \/ e = Len(t)
                       \/ t[e + 1] = ";"
                       \/ (t[e + 1] = "\n" /\ e + 1 = Len(t))}
    IN  IF ends = {} THEN 0 ELSE Min(ends)

\* key\s*[:\-]\s*(.+?)(;|$) with re.IGNORECASE, anchored at index p: group 1.
\* The greedy \s* after the separator gives whitespace back to the group
\* only when the match fails otherwise.
\* (low is Lower(t), computed once by the caller.)
FieldAt(t, low, key, p) ==
    IF ~HasAt(low, key, p) THEN NoMatch
    ELSE With(SkipWs(t, p + Len(key)), LAMBDA q :
         IF q > Len(t) \/ t[q] \notin {":", "-"} THEN NoMatch
         ELSE With({r \in (q + 1)..SkipWs(t, q + 1) : r <= Len(t) /\ GroupEnd(t, r) # 0},
                   LAMBDA starts :
              IF starts = {} THEN NoMatch
              ELSE [found |-> TRUE,
                    g |-> SubSeq(t, Max(starts), GroupEnd(t, Max(starts)))]))

\* re.search: the leftmost index where the pattern matches
SearchField(t, key) ==
    With(Lower(t), LAMBDA low :
    With({p \in 1..Len(t) : HasAt(low, key, p) /\ FieldAt(t, low, key, p).found},
         LAMBDA hits :
    IF hits = {} THEN NoMatch ELSE FieldAt(t, low, key, Min(hits))))

\* [A-Za-z<cyrillic a-ya>0-9\-\s] under re.IGNORECASE
InNameClass(c) ==
    \/ c \in LatLowerSet \/ c \in LatUpperSet
    \/ c \in CyrLowerSet \/ c \in CyrUpperSet
    \/ c \in Digits \/ c = "-" \/ IsWs(c)

\* the length of the greedy run of class characters from index s, at most ClassMax
ClassRun(t, s) ==
    LET stop == Min({j \in s..(Len(t) + 1) : j = Len(t) + 1 \/ ~InNameClass(t[j])})
    IN  IF stop - s > ClassMax THEN ClassMax ELSE stop - s

\* dlya\s+([class]{2,60}) with re.IGNORECASE, anchored at index p: group 1
DlyaAt(t, low, p) ==
    IF ~HasAt(low, S_dlya, p) THEN NoMatch
    ELSE With({s \in (p + Len(S_dlya) + 1)..SkipWs(t, p + Len(S_dlya)) :
                  ClassRun(t, s) >= ClassMin},
              LAMBDA starts :
         IF starts = {} THEN NoMatch
         ELSE [found |-> TRUE,
               g |-> SubSeq(t, Max(starts), Max(starts) + ClassRun(t, Max(starts)) - 1)])

SearchDlya(t) ==
    With(Lower(t), LAMBDA low :
    With({p \in 1..Len(t) : HasAt(low, S_dlya, p) /\ DlyaAt(t, low, p).found},
         LAMBDA hits :
    IF hits = {} THEN NoMatch ELSE DlyaAt(t, low, Min(hits))))

\* the client name after the first two searches, then the third
ClientName(t, m1) ==
    With(IF m1.found THEN Strip(m1.g) ELSE DefaultClient, LAMBDA c1 :
    IF c1 = DefaultClient
    THEN With(SearchDlya(t), LAMBDA m3 : IF m3.found THEN Strip(m3.g) ELSE c1)
    ELSE c1)

DealName(t, m2) ==
    With(IF m2.found THEN Strip(m2.g) ELSE DefaultDeal, LAMBDA d1 :
    IF d1 = DefaultDeal
    THEN (IF t # << >> THEN Prefix(t, DealPrefix) ELSE FallbackDeal)
    ELSE d1)

parse_request(text) ==
    With(Strip(text), LAMBDA t :
        [client |-> ClientName(t, SearchField(t, S_client)),
         deal |-> DealName(t, SearchField(t, S_deal))])


---------------------------------------------------------------------------
(* safe_name, the fixed folder names and pick_subfolder_name               *)

\* the limit of safe_name
NameMax == 120

\* re.sub(r"\s+", " ", s): every run of whitespace becomes one space
\* (each character is paired with "the one before it is whitespace"; the
\* whitespace that follows whitespace is dropped, the rest becomes a space)
CollapseWs(s) ==
    With(SelectSeq([i \in 1..Len(s) |-> <<s[i], i > 1 /\ IsWs(s[i - 1])>>],
                   LAMBDA x : ~(IsWs(x[1]) /\ x[2])),
         LAMBDA kept : [k \in 1..Len(kept) |-> IF IsWs(kept[k][1]) THEN " " ELSE kept[k][1]])

safe_name(s) ==
    With(Strip(s), LAMBDA t :
    With(CollapseWs([i \in 1..Len(t) |-> IF t[i] = "/" THEN "_" ELSE t[i]]), LAMBDA u :
    Prefix(u, NameMax)))

YEAR_FIXED == <<"2", "0", "2", "6">>

F01 ==
    <<"0", "1", "_", "RU_K", "RU_P", "_", "ru_d", "ru_l", "ru_ya", " ", "ru_k", "ru_l",
      "ru_i", "ru_e", "ru_n", "ru_t", "ru_a">>

F02 ==
    <<"0", "2", "_", "RU_S", "ru_e", "ru_b", "ru_e", "ru_s", "ru_t", "ru_o", "ru_i", "ru_m",
      "ru_o", "ru_s", "ru_t", "ru_x">>

F03 ==
    <<"0", "3", "_", "RU_D", "ru_o", "ru_g", "ru_o", "ru_v", "ru_o", "ru_r", "_", "ru_i",
      "_", "ru_p", "ru_r", "ru_i", "ru_l", "ru_o", "ru_zh", "ru_e", "ru_n", "ru_i",
      "ru_e">>

F04 ==
    <<"0", "4", "_", "RU_S", "ru_ch", "ru_e", "ru_t", "ru_a", "_", "ru_i", "_", "ru_z",
      "ru_a", "ru_k", "ru_r", "ru_y", "ru_v", "ru_a", "ru_sh", "ru_k", "ru_i">>

F05 ==
    <<"0", "5", "_", "RU_M", "ru_a", "ru_k", "ru_e", "ru_t", "ru_y", "_", "ru_i", "_",
      "ru_v", "ru_e", "ru_k", "ru_t", "ru_o", "ru_r", "ru_y">>

F06 ==
    <<"0", "6", "_", "RU_Z", "ru_a", "ru_k", "ru_r", "ru_y", "ru_v", "ru_a", "ru_sh",
      "ru_k", "ru_i">>

F07 ==
    <<"0", "7", "_", "RU_CH", "ru_e", "ru_s", "ru_t", "ru_n", "ru_y", "ru_j", "_", "ru_z",
      "ru_n", "ru_a", "ru_k">>

F08 ==
    <<"0", "8", "_", "RU_F", "ru_o", "ru_t", "ru_o", "_", "ru_o", "ru_t", "_", "ru_k",
      "ru_l", "ru_i", "ru_e", "ru_n", "ru_t", "ru_a">>

TAG_TO_FOLDER ==
    <<[tag |-> <<"#", "k", "p">>, folder |-> F01],
      [tag |-> <<"#", "c", "o", "s", "t">>, folder |-> F02],
      [tag |-> <<"#", "c", "o", "n", "t", "r", "a", "c", "t">>, folder |-> F03],
      [tag |-> <<"#", "i", "n", "v", "o", "i", "c", "e">>, folder |-> F04],
      [tag |-> <<"#", "d", "e", "s", "i", "g", "n">>, folder |-> F05],
      [tag |-> <<"#", "c", "l", "o", "s", "e">>, folder |-> F06],
      [tag |-> <<"#", "c", "z">>, folder |-> F07],
      [tag |-> <<"#", "p", "h", "o", "t", "o">>, folder |-> F08]>>

KEYWORDS_TO_FOLDER ==
    <<[keys |-> <<<<"ru_k", "ru_p">>,
                  <<"k", "p">>,
                  <<"p", "r", "o", "p", "o", "s", "a", "l">>,
                  <<"ru_k", "ru_o", "ru_m", "ru_m", "ru_e", "ru_r", "ru_ch", "ru_e", "ru_s", "ru_k", "ru_o", "ru_e">>>>,
       folder |-> F01],
      [keys |-> <<<<"ru_s", "ru_e", "ru_b", "ru_e", "ru_s">>,
                  <<"c", "o", "s", "t">>,
                  <<"ru_s", "ru_m", "ru_e", "ru_t", "ru_a">>,
                  <<"ru_r", "ru_a", "ru_s", "ru_ch", "ru_e", "ru_t">>,
                  <<"ru_k", "ru_a", "ru_l", "ru_x", "ru_k", "ru_u", "ru_l", "ru_ya", "ru_c">>>>,
       folder |-> F02],
      [keys |-> <<<<"ru_d", "ru_o", "ru_g", "ru_o", "ru_v", "ru_o", "ru_r">>,
                  <<"c", "o", "n", "t", "r", "a", "c", "t">>,
                  <<"a", "g", "r", "e", "e", "m", "e", "n", "t">>>>,
       folder |-> F03],
      [keys |-> <<<<"ru_s", "ru_ch", "ru_e", "ru_t">>,
                  <<"i", "n", "v", "o", "i", "c", "e">>,
                  <<"ru_a", "ru_k", "ru_t">>,
                  <<"ru_u", "ru_p", "ru_d">>,
                  <<"ru_n", "ru_a", "ru_k", "ru_l", "ru_a", "ru_d", "ru_n">>>>,
       folder |-> F04],
      [keys |-> <<<<"ru_m", "ru_a", "ru_k", "ru_e", "ru_t">>,
                  <<"d", "e", "s", "i", "g", "n">>,
                  <<"a", "i">>,
                  <<"p", "d", "f">>,
                  <<"c", "d", "r">>,
                  <<"e", "p", "s">>,
                  <<"s", "v", "g">>>>,
       folder |-> F05],
      [keys |-> <<<<"ru_z", "ru_a", "ru_k", "ru_r", "ru_y", "ru_v", "ru_a", "ru_sh">>,
                  <<"c", "l", "o", "s", "i", "n", "g">>>>,
       folder |-> F06],
      [keys |-> <<<<"ru_ch", "ru_z">>,
                  <<"ru_ch", "ru_e", "ru_s", "ru_t", "ru_n">>,
                  <<"c", "z">>,
                  <<"m", "a", "r", "k">>,
                  <<"ru_m", "ru_a", "ru_r", "ru_k", "ru_i", "ru_r", "ru_o", "ru_v">>>>,
       folder |-> F07],
      [keys |-> <<<<"ru_f", "ru_o", "ru_t", "ru_o">>,
                  <<"p", "h", "o", "t", "o">>,
                  <<"j", "p", "g">>,
                  <<"j", "p", "e", "g">>,
                  <<"p", "n", "g">>,
                  <<"h", "e", "i", "c">>>>,
       folder |-> F08]>>

subfolder_names == <<F01, F02, F03, F04, F05, F06, F07, F08>>

S_image == <<"i", "m", "a", "g", "e", "/">>

\* the folder of the first tag of TAG_TO_FOLDER that occurs in t (dict order)
TagHits(t) == {i \in 1..Len(TAG_TO_FOLDER) : Contains(TAG_TO_FOLDER[i].tag, t)}

\* the first entry of KEYWORDS_TO_FOLDER one of whose keys occurs in blob
KeywordHits(blob) ==
    {i \in 1..Len(KEYWORDS_TO_FOLDER) :
        \E k \in 1..Len(KEYWORDS_TO_FOLDER[i].keys) :
            Contains(KEYWORDS_TO_FOLDER[i].keys[k], blob)}

\* a variant of pick_subfolder_name: the keywords are looked at before the tags
pick_keywords_first(caption_or_text, filename, mime_type) ==
    With(Lower(caption_or_text), LAMBDA t :
    With(KeywordHits(t \o <<" ">> \o Lower(filename) \o <<" ">> \o Lower(mime_type)),
         LAMBDA words :
    IF words # {} THEN KEYWORDS_TO_FOLDER[Min(words)].folder
    ELSE With(TagHits(t), LAMBDA tags :
         IF tags # {} THEN TAG_TO_FOLDER[Min(tags)].folder
         ELSE IF HasAt(mime_type, S_image, 1) THEN F08
         ELSE F05)))

pick_subfolder_name(caption_or_text, filename, mime_type) ==
    With(Lower(caption_or_text), LAMBDA t :
    With(TagHits(t), LAMBDA tags :
    IF tags # {} THEN TAG_TO_FOLDER[Min(tags)].folder
    ELSE With(KeywordHits(t \o <<" ">> \o Lower(filename) \o <<" ">> \o Lower(mime_type)),
              LAMBDA words :
         IF words # {} THEN KEYWORDS_TO_FOLDER[Min(words)].folder
         ELSE IF HasAt(mime_type, S_image, 1) THEN F08
         ELSE F05)))
---------------------------------------------------------------------------
(* Google Drive: the folders under the root, and build_deal_folders        *)

GDRIVE_ROOT_FOLDER_ID == 0

\* a folder's link: the one the Drive API returns with a created folder
\* ("api") or the one drive_get_or_create_folder formats for a found one
WebViewLink(id, from) == [folder |-> id, from |-> from]

\* files().list(q = name and parent, pageSize = 1): the id of a folder of that
\* name under that parent.  The name searched is safe_name of the name given.
drive_find_folder(d, name, parent_id) ==
    With(safe_name(name), LAMBDA n :
    With({i \in 1..Len(d) : d[i].parent = parent_id /\ d[i].name = n}, LAMBDA hits :
    IF hits = {} THEN [found |-> FALSE, id |-> 0]
    ELSE [found |-> TRUE, id |-> Min(hits)]))

drive_get_or_create_folder(d, name, parent_id) ==
    With(safe_name(name), LAMBDA n :
    With(drive_find_folder(d, n, parent_id), LAMBDA existing :
    IF existing.found
    THEN [drive |-> d, id |-> existing.id, name |-> n,
          webViewLink |-> WebViewLink(existing.id, "format"), created |-> FALSE]
    ELSE [drive |-> Append(d, [name |-> n, parent |-> parent_id]),
          id |-> Len(d) + 1, name |-> n,
          webViewLink |-> WebViewLink(Len(d) + 1, "api"), created |-> TRUE]))

\* the Drive calls of build_deal_folders: 1 year, 2 client, 3 deal, 4.. subfolders
NFolders == 3 + Len(subfolder_names)

\* failAt: the Drive call that raises (0: _drive_service itself, k in
\* 1..NFolders: the get-or-create of folder k, NFolders + 1: none)
NoFail == NFolders + 1
FailChoices == 0..NoFail

\* the failures a webhook call is made to meet: the service, the deal folder,
\* a subfolder in the middle of the loop, none
DriveFailures == {0, 3, 8, NoFail}

\* the name and the parent of the k-th folder, given the folders before it
FolderName(k, client, deal, date_str) ==
    IF k = 1 THEN YEAR_FIXED
    ELSE IF k = 2 THEN client
    ELSE IF k = 3 THEN deal \o <<"_">> \o date_str
    ELSE subfolder_names[k - 3]

FolderParent(k, got) ==
    IF k = 1 THEN GDRIVE_ROOT_FOLDER_ID
    ELSE IF k <= 3 THEN got[k - 1].id
    ELSE got[3].id

\* the first n get-or-create calls, in order; d is threaded through them
RECURSIVE FolderCalls(_, _, _, _, _)
FolderCalls(d, client, deal, date_str, n) ==
    IF n = 0 THEN << >>
    ELSE With(FolderCalls(d, client, deal, date_str, n - 1), LAMBDA got :
         Append(got, drive_get_or_create_folder(IF n = 1 THEN d ELSE got[n - 1].drive,
                                                FolderName(n, client, deal, date_str),
                                                FolderParent(n, got))))

\* what build_deal_folders leaves and returns when the Drive call failAt raises
BuildResult(d, got, failAt) ==
    [ok |-> failAt = NoFail,
     drive |-> IF failAt <= 1 THEN d ELSE got[failAt - 1].drive,
     deal_folder |-> IF failAt = NoFail
                     THEN [id |-> got[3].id, name |-> got[3].name,
                           webViewLink |-> got[3].webViewLink]
                     ELSE [id |-> 0, name |-> << >>, webViewLink |-> WebViewLink(0, "none")],
     subfolders |-> IF failAt = NoFail
                    THEN [k \in 1..Len(subfolder_names) |->
                             [name |-> subfolder_names[k], id |-> got[k + 3].id]]
                    ELSE << >>,
     created |-> Cardinality({k \in 1..Len(got) : k < failAt /\ got[k].created})]

build_deal_folders(d, client_name, deal_name, date_str, failAt) ==
    With(safe_name(IF client_name = << >> THEN DefaultClient ELSE client_name), LAMBDA client :
    With(safe_name(IF deal_name = << >> THEN FallbackDeal ELSE deal_name), LAMBDA deal :
    With(FolderCalls(d, client, deal, date_str,
                     IF failAt = NoFail THEN NFolders ELSE IF failAt = 0 THEN 0 ELSE failAt - 1),
         LAMBDA got : BuildResult(d, got, failAt))))

---------------------------------------------------------------------------
(* telegram_webhook.  A call occupies a slot from its arrival to its       *)
(* return; the code between two awaits runs without interruption (one      *)
(* event loop), so each action is the code from one await to the next.     *)

T_start == <<"/", "s", "t", "a", "r", "t">>
T_start2 == <<"s", "t", "a", "r", "t">>
T_help == <<"/", "h", "e", "l", "p">>
T_help2 == <<"h", "e", "l", "p">>
T_set_webhook == <<"/", "s", "e", "t", "_", "w", "e", "b", "h", "o", "o", "k">>
T_where == <<"/", "w", "h", "e", "r", "e">>

N_file == <<"f", "i", "l", "e">>
N_photo == <<"p", "h", "o", "t", "o", ".", "j", "p", "g">>
M_jpeg == <<"i", "m", "a", "g", "e", "/", "j", "p", "e", "g">>
N_video == <<"v", "i", "d", "e", "o", ".", "m", "p", "4">>
M_video == <<"v", "i", "d", "e", "o", "/", "m", "p", "4">>
N_audio == <<"a", "u", "d", "i", "o", ".", "m", "p", "3">>
M_audio == <<"a", "u", "d", "i", "o", "/", "m", "p", "e", "g">>
N_voice == <<"v", "o", "i", "c", "e", ".", "o", "g", "g">>
M_voice == <<"a", "u", "d", "i", "o", "/", "o", "g", "g">>

\* datetime.now().strftime("%Y-%m-%d")
DateStr == <<"2", "0", "2", "6", "-", "1", "1", "-", "0", "4">>

NoContext == [present |-> FALSE]
NoFolders == [deal_id |-> 0, deal_url |-> WebViewLink(0, "none"), subfolders |-> << >>]

NoMessage ==
    [chat |-> 0, text |-> << >>, kind |-> "none", caption |-> << >>,
     file_name |-> << >>, mime_type |-> << >>]

\* got: the x-telegram-bot-api-secret-token header of the call ("": absent)
\* after: the slots whose calls were suspended at an await when this one
\* arrived (the calls that ran their first synchronous part before this one)
IdleCall ==
    [pc |-> "idle", chat |-> 0, branch |-> "none", msg |-> NoMessage, after |-> {},
     got |-> "",
     out |-> "none", in_try |-> FALSE,
     client_name |-> << >>, deal_name |-> << >>, folders |-> NoFolders,
     ctx |-> NoContext, target_name |-> << >>, target_folder_id |-> 0,
     log |-> << >>, result |-> "none"]

\* an external effect of a call, in the order the call made them
Ev(e, ok, id) == [e |-> e, ok |-> ok, id |-> id, what |-> "none"]
Logged(c, e) == [c EXCEPT !.log = Append(@, e)]

\* the handler is at "await tg_send_message(chat_id, <kind>)"; in_try: inside
\* a try block whose except clause sends the branch's error message
Say(c, kind, in_try) == [c EXCEPT !.pc = "send", !.out = kind, !.in_try = in_try]

\* return <result> (or, for "raised", an exception leaving the handler)
Returned(c, result) == [c EXCEPT !.pc = "done", !.out = "none", !.result = result]

\* a variant of SecretOk: a call without the header is let through
SecretOkAbsent(secret, header) == secret = "" \/ header = "" \/ header = secret

\* the header check
SecretOk(secret, header) == secret = "" \/ header = secret

\* the if-chain on the message text and kind
Branch(m) ==
    With(Lower(Strip(m.text)), LAMBDA text :
        IF text \in {T_start, T_start2, T_help, T_help2} THEN "help"
        ELSE IF text = T_set_webhook THEN "set_webhook"
        ELSE IF text = T_where THEN "where"
        ELSE IF Contains(S_client, text) /\ Contains(S_deal, text) THEN "deal"
        ELSE IF m.kind # "none" THEN "file"
        ELSE "fallback")

\* filename and mime of the five file branches
FileName(m) ==
    CASE m.kind = "document" -> (IF m.file_name = << >> THEN N_file ELSE m.file_name)
      [] m.kind = "photo" -> N_photo
      [] m.kind = "video" -> (IF m.file_name = << >> THEN N_video ELSE m.file_name)
      [] m.kind = "audio" -> (IF m.file_name = << >> THEN N_audio ELSE m.file_name)
      [] OTHER -> N_voice

FileMime(m) ==
    CASE m.kind = "document" -> m.mime_type
      [] m.kind = "photo" -> M_jpeg
      [] m.kind = "video" -> (IF m.mime_type = << >> THEN M_video ELSE m.mime_type)
      [] m.kind = "audio" -> (IF m.mime_type = << >> THEN M_audio ELSE m.mime_type)
      [] OTHER -> (IF m.mime_type = << >> THEN M_voice ELSE m.mime_type)

\* sub_map.get(target_name) or deal_id
TargetFolderId(sub_map, target_name, deal_id) ==
    With({k \in 1..Len(sub_map) : sub_map[k].name = target_name}, LAMBDA hits :
        IF hits # {} /\ sub_map[Min(hits)].id # 0 THEN sub_map[Min(hits)].id ELSE deal_id)

\* the dictionary stored in CHAT_CONTEXT[chat_id]
NewContext(client_name, deal_name, folders) ==
    [present |-> TRUE, client |-> client_name, deal |-> deal_name,
     deal_id |-> folders.deal_id, deal_url |-> folders.deal_url,
     subfolders |-> folders.subfolders]

\* deal branch, up to "await airtable_create_deal": parse_request and
\* build_deal_folders (synchronous), then the Airtable await or the except clause
DealStart(c, built, names) ==
    IF built.ok
    THEN [Logged(c, Ev("drive_folders", TRUE, built.deal_folder.id))
            EXCEPT !.pc = "airtable",
                   !.client_name = names.client, !.deal_name = names.deal,
                   !.folders = [deal_id |-> built.deal_folder.id,
                                deal_url |-> built.deal_folder.webViewLink,
                                subfolders |-> built.subfolders]]
    ELSE Say(Logged(c, Ev("drive_folders", FALSE, 0)), "error", FALSE)

\* a variant of FileStart: without an entry the file goes under the root
FileStartUnguarded(c, m, ctx, service_ok) ==
    IF ~service_ok
    THEN Say(Logged([c EXCEPT !.ctx = ctx], Ev("drive_service", FALSE, 0)),
             "upload_error", FALSE)
    ELSE With(pick_subfolder_name(Strip(m.caption), FileName(m), FileMime(m)),
              LAMBDA target :
              [c EXCEPT !.pc = "get_file", !.ctx = ctx, !.target_name = target,
                        !.target_folder_id =
                            IF ctx.present
                            THEN TargetFolderId(ctx.subfolders, target, ctx.deal_id)
                            ELSE GDRIVE_ROOT_FOLDER_ID])

\* file branch, up to "await tg_get_file_path": the context is read once,
\* and the target folder is chosen before the first await
FileStart(c, m, ctx, service_ok) ==
    IF ~ctx.present THEN Say(c, "choose_deal", FALSE)
    ELSE IF ~service_ok
    THEN Say(Logged([c EXCEPT !.ctx = ctx], Ev("drive_service", FALSE, 0)),
             "upload_error", FALSE)
    ELSE With(pick_subfolder_name(Strip(m.caption), FileName(m), FileMime(m)),
              LAMBDA target :
              [c EXCEPT !.pc = "get_file", !.ctx = ctx, !.target_name = target,
                        !.target_folder_id =
                            TargetFolderId(ctx.subfolders, target, ctx.deal_id)])

\* /where: the context is read and the reply is formatted before the await
WhereStart(c, ctx) ==
    IF ~ctx.present THEN Say(c, "no_context", FALSE)
    ELSE Say([c EXCEPT !.ctx = ctx], "where", FALSE)

\* after "await tg_set_webhook()"
AfterSetWebhook(c, ok) ==
    IF ok THEN Say(Logged(c, Ev("set_webhook", TRUE, 0)), "webhook_set", TRUE)
    ELSE Say(Logged(c, Ev("set_webhook", FALSE, 0)), "webhook_error", FALSE)

\* a variant of AfterAirtable: the result of the Airtable call is not looked
\* at (no raise_for_status)
AfterAirtableUnchecked(c, ok) ==
    Say(Logged(Logged(c, Ev("airtable", ok, c.folders.deal_id)),
               Ev("context", TRUE, c.folders.deal_id)), "deal_created", TRUE)

\* after "await airtable_create_deal(...)": the call's record
AfterAirtable(c, ok) ==
    IF ok
    THEN Say(Logged(Logged(c, Ev("airtable", TRUE, c.folders.deal_id)),
                    Ev("context", TRUE, c.folders.deal_id)), "deal_created", TRUE)
    ELSE Say(Logged(c, Ev("airtable", FALSE, c.folders.deal_id)), "error", FALSE)

\* a variant of ContextAfterAirtable: the entry is stored before the Airtable
\* call is known to have succeeded
ContextStoredEarly(context, c, ok) ==
    [context EXCEPT ![c.chat] = NewContext(c.client_name, c.deal_name, c.folders)]

\* a variant of ContextAfterAirtable: one entry for the whole process
ContextForAllChats(context, c, ok) ==
    IF ok THEN [ch \in DOMAIN context |->
                   NewContext(c.client_name, c.deal_name, c.folders)]
    ELSE context

\* after "await airtable_create_deal(...)": the dictionary
ContextAfterAirtable(context, c, ok) ==
    IF ok THEN [context EXCEPT ![c.chat] = NewContext(c.client_name, c.deal_name, c.folders)]
    ELSE context

\* after "await tg_get_file_path(file_id)"
AfterGetFile(c, ok) ==
    IF ok THEN [Logged(c, Ev("get_file", TRUE, 0)) EXCEPT !.pc = "download"]
    ELSE Say(Logged(c, Ev("get_file", FALSE, 0)), "upload_error", FALSE)

\* a variant of UploadParent: the entry is read again after the download
UploadParentReadLate(c, context) ==
    TargetFolderId(context[c.chat].subfolders, c.target_name, context[c.chat].deal_id)

\* the folder drive_upload_file is given
UploadParent(c, context) == c.target_folder_id

\* after "await tg_download_to_tmp(file_path)": drive_upload_file (synchronous)
AfterDownload(c, context, ok, upload_ok) ==
    IF ~ok THEN Say(Logged(c, Ev("download", FALSE, 0)), "upload_error", FALSE)
    ELSE IF ~upload_ok
    THEN Say(Logged(Logged(c, Ev("download", TRUE, 0)),
                    Ev("upload", FALSE, UploadParent(c, context))), "upload_error", FALSE)
    ELSE Say(Logged(Logged(c, Ev("download", TRUE, 0)),
                    Ev("upload", TRUE, UploadParent(c, context))), "file_uploaded", TRUE)

\* the error message of the except clause around a send
ErrorKind(c) ==
    CASE c.branch = "set_webhook" -> "webhook_error"
      [] c.branch = "deal" -> "error"
      [] OTHER -> "upload_error"

\* the except clause of a try block returns without reporting
AfterSendSilent(c, ok) ==
    IF ok \/ c.in_try
    THEN Returned(Logged(c, [Ev("send", ok, 0) EXCEPT !.what = c.out]), "ok_true")
    ELSE Returned(Logged(c, [Ev("send", ok, 0) EXCEPT !.what = c.out]), "raised")

\* after "await tg_send_message(chat_id, text)"
AfterSend(c, ok) ==
    With(Logged(c, [Ev("send", ok, 0) EXCEPT !.what = c.out]), LAMBDA d :
        IF ok THEN Returned(d, "ok_true")
        ELSE IF c.in_try THEN Say(d, ErrorKind(c), FALSE)
        ELSE Returned(d, "raised"))
---------------------------------------------------------------------------
(* The environment: chats, messages, headers, failures                     *)

\* the slots for calls in flight
MaxInFlight == 2
Slots == 1..MaxInFlight

Chats == {1, 2}

MsgHelpUpper == <<"/", "H", "E", "L", "P">>
MsgHi == <<"ru_p", "ru_r", "ru_i", "ru_v", "ru_e", "ru_t">>
MsgDealA ==
    <<"RU_K", "ru_l", "ru_i", "ru_e", "ru_n", "ru_t", ":", " ", "RU_R", "RU_ZH", "RU_D",
      ";", " ", "RU_S", "ru_d", "ru_e", "ru_l", "ru_k", "ru_a", ":", " ", "ru_k", "ru_u",
      "ru_r", "ru_t", "ru_k", "ru_i", " ", "3", "0", "0">>
MsgDealB ==
    <<"ru_k", "ru_l", "ru_i", "ru_e", "ru_n", "ru_t", " ", "-", " ", "RU_R", "RU_ZH",
      "RU_D", ";", " ", "ru_s", "ru_d", "ru_e", "ru_l", "ru_k", "ru_a", " ", "-", " ",
      "ru_k", "ru_e", "ru_p", "ru_k", "ru_i">>
CapKp == <<"#", "k", "p">>
CapPhoto == <<"#", "P", "h", "o", "t", "o">>
CapTwo ==
    <<"ru_f", "ru_o", "ru_t", "ru_o", " ", "#", "p", "h", "o", "t", "o", " ", "#", "c",
      "o", "s", "t">>
FnDogovor == <<"ru_d", "ru_o", "ru_g", "ru_o", "ru_v", "ru_o", "ru_r", ".", "p", "d", "f">>
FnScan == <<"s", "c", "a", "n">>
M_png == <<"i", "m", "a", "g", "e", "/", "p", "n", "g">>
M_pdf == <<"a", "p", "p", "l", "i", "c", "a", "t", "i", "o", "n", "/", "p", "d", "f">>

Msg(chat, text, kind, caption, file_name, mime_type) ==
    [chat |-> chat, text |-> text, kind |-> kind, caption |-> caption,
     file_name |-> file_name, mime_type |-> mime_type]

Texts == {MsgHelpUpper, T_set_webhook, T_where, MsgDealA, MsgDealB, MsgHi}

Files ==
    {<<"document", CapPhoto, FnDogovor, M_pdf>>,
     <<"document", CapTwo, FnScan, M_png>>,
     <<"document", << >>, FnDogovor, M_pdf>>,
     <<"document", << >>, << >>, << >>>>,
     <<"photo", << >>, << >>, << >>>>,
     <<"video", CapKp, << >>, << >>>>,
     <<"audio", << >>, << >>, << >>>>,
     <<"voice", CapTwo, << >>, << >>>>}

\* chat 0: an update without message.chat.id
Messages ==
    {Msg(ch, t, "none", << >>, << >>, << >>) : ch \in Chats, t \in Texts}
    \cup {Msg(ch, << >>, f[1], f[2], f[3], f[4]) : ch \in Chats, f \in Files}
    \cup {Msg(0, MsgHi, "none", << >>, << >>, << >>)}

Secrets == {"", "s3cret"}
Headers == {"", "s3cret", "wrong"}

NoArg == [none |-> TRUE]
NoRet == [done |-> FALSE]

Init ==
    /\ CHAT_CONTEXT = [ch \in Chats |-> NoContext]
    /\ drive = << >>
    /\ calls = [i \in Slots |-> IdleCall]
    /\ env \in [TELEGRAM_SECRET_TOKEN : Secrets]
    /\ arg = NoArg
    /\ ret = NoRet

Free(i) == calls[i].pc = "idle"
FreeSlot(i) == Free(i) /\ \A j \in Slots : Free(j) => i <= j

\* the slot's call becomes c.  The value is bound by the caller with
\* "\E c \in {...}", which evaluates it once.
Put(i, c) == calls' = [calls EXCEPT ![i] = c]

\* a webhook call arrives in slot i: the handler up to its first await
\* (failAt: the Drive call that raises, should the call create a deal)
Receive(i, m, header, failAt) ==
    /\ FreeSlot(i)
    /\ \E c \in {[IdleCall EXCEPT !.chat = m.chat, !.msg = m, !.got = header,
                                     !.after = {j \in Slots : calls[j].pc \notin {"idle", "done"}}]} :
       \E b \in {[c EXCEPT !.branch = Branch(m)]} :
           IF ~SecretOk(env.TELEGRAM_SECRET_TOKEN, header)
           THEN Put(i, Returned(c, "bad_secret")) /\ UNCHANGED drive
           ELSE IF m.chat = 0
           THEN Put(i, Returned(c, "ok_true")) /\ UNCHANGED drive
           ELSE CASE b.branch = "help" ->
                       Put(i, Say(b, "help", FALSE)) /\ UNCHANGED drive
                  [] b.branch = "set_webhook" ->
                       Put(i, [b EXCEPT !.pc = "set_webhook"]) /\ UNCHANGED drive
                  [] b.branch = "where" ->
                       /\ \E n \in {WhereStart(b, CHAT_CONTEXT[m.chat])} : Put(i, n)
                       /\ UNCHANGED drive
                  [] b.branch = "deal" ->
                       \E names \in {parse_request(Strip(m.text))} :
                       \E built \in {build_deal_folders(drive, names.client, names.deal,
                                                        DateStr, failAt)} :
                       \E n \in {DealStart(b, built, names)} :
                           Put(i, n) /\ drive' = built.drive
                  [] b.branch = "file" ->
                       /\ \E service_ok \in BOOLEAN :
                          \E n \in {FileStart(b, m, CHAT_CONTEXT[m.chat], service_ok)} :
                              Put(i, n)
                       /\ UNCHANGED drive
                  [] OTHER ->
                       Put(i, Say(b, "fallback", FALSE)) /\ UNCHANGED drive
    /\ UNCHANGED <<CHAT_CONTEXT, env, arg, ret>>

SetWebhookDone(i) ==
    /\ calls[i].pc = "set_webhook"
    /\ \E ok \in BOOLEAN : \E n \in {AfterSetWebhook(calls[i], ok)} : Put(i, n)
    /\ UNCHANGED <<CHAT_CONTEXT, drive, env, arg, ret>>

AirtableDone(i) ==
    /\ calls[i].pc = "airtable"
    /\ \E ok \in BOOLEAN :
       \E n \in {AfterAirtable(calls[i], ok)} :
       \E context \in {ContextAfterAirtable(CHAT_CONTEXT, calls[i], ok)} :
          Put(i, n) /\ CHAT_CONTEXT' = context
    /\ UNCHANGED <<drive, env, arg, ret>>

GetFileDone(i) ==
    /\ calls[i].pc = "get_file"
    /\ \E ok \in BOOLEAN : \E n \in {AfterGetFile(calls[i], ok)} : Put(i, n)
    /\ UNCHANGED <<CHAT_CONTEXT, drive, env, arg, ret>>

\* a failed download leaves one outcome; a finished one is followed by the upload
DownloadDone(i) ==
    /\ calls[i].pc = "download"
    /\ \E o \in {<<FALSE, FALSE>>, <<TRUE, FALSE>>, <<TRUE, TRUE>>} :
       \E n \in {AfterDownload(calls[i], CHAT_CONTEXT, o[1], o[2])} : Put(i, n)
    /\ UNCHANGED <<CHAT_CONTEXT, drive, env, arg, ret>>

SendDone(i) ==
    /\ calls[i].pc = "send"
    /\ \E ok \in BOOLEAN : \E n \in {AfterSend(calls[i], ok)} : Put(i, n)
    /\ UNCHANGED <<CHAT_CONTEXT, drive, env, arg, ret>>

\* the response is out and the call's frame is gone: the slot is free again
Release(i) ==
    /\ calls[i].pc = "done"
    /\ calls' = [j \in Slots |-> IF j = i THEN IdleCall
                                ELSE [calls[j] EXCEPT !.after = @ \ {i}]]
    /\ UNCHANGED <<CHAT_CONTEXT, drive, env, arg, ret>>

\* the calls are handled one at a time
ReceiveAlone(i) ==
    /\ \A j \in Slots : Free(j)
    /\ \E m \in Messages, header \in Headers, failAt \in DriveFailures :
          Receive(i, m, header, failAt)

Next ==
    \E i \in Slots :
        \/ ReceiveAlone(i)
        \/ SetWebhookDone(i)
        \/ AirtableDone(i)
        \/ GetFileDone(i)
        \/ DownloadDone(i)
        \/ SendDone(i)
        \/ Release(i)

Spec == Init /\ [][Next]_vars
---------------------------------------------------------------------------
(* Properties of the handler, the calls handled one at a time (Spec)       *)

\* slot i holds a call that passed the token check and carries a chat id
Handled(i) ==
    calls[i].pc # "idle" /\ calls[i].chat # 0 /\ calls[i].result # "bad_secret"

\* the tg_send_message calls of a call, in order
Sends(c) == SelectSeq(c.log, LAMBDA e : e.e = "send")

SuccessKinds == {"webhook_set", "deal_created", "file_uploaded"}

\* f holds the ids of a deal folder tree of Drive d: the deal folder of that
\* client and deal under the year folder under the root, its link, and its
\* eight subfolders under their fixed names
IsDealTree(d, f, client_name, deal_name) ==
    /\ f.deal_id \in 1..Len(d)
    /\ d[f.deal_id].name = safe_name(safe_name(deal_name) \o <<"_">> \o DateStr)
    /\ f.deal_url.folder = f.deal_id
    /\ LET p == d[f.deal_id].parent
       IN  /\ p \in 1..Len(d)
           /\ d[p].name = safe_name(client_name)
           /\ d[p].parent \in 1..Len(d)
           /\ d[d[p].parent].name = YEAR_FIXED
           /\ d[d[p].parent].parent = GDRIVE_ROOT_FOLDER_ID
    /\ Len(f.subfolders) = Len(subfolder_names)
    /\ \A k \in 1..Len(f.subfolders) :
          /\ f.subfolders[k].name = subfolder_names[k]
          /\ f.subfolders[k].id \in 1..Len(d)
          /\ d[f.subfolders[k].id].name = subfolder_names[k]
          /\ d[f.subfolders[k].id].parent = f.deal_id

\* C1 (as stated): no error leaves telegram_webhook: whatever call fails once
\* the chat id is known, a finished call has returned {"ok": True}.
C1_NoErrorEscapes ==
    \A i \in Slots :
        Handled(i) /\ calls[i].pc = "done" => calls[i].result = "ok_true"

\* C1, the failing case: /help is answered outside any try block, the
\* sendMessage request raises, and the exception leaves the handler.
C1_HelpSendRaised ==
    \E i \in Slots :
        /\ calls[i].branch = "help"
        /\ calls[i].result = "raised"
        /\ Len(calls[i].log) = 1
        /\ calls[i].log[1].e = "send" /\ ~calls[i].log[1].ok

\* C2 (as stated): a finished call that passed the token check and carries a
\* chat id has made exactly one tg_send_message call, never zero, never two.
C2_ExactlyOneSend ==
    \A i \in Slots :
        Handled(i) /\ calls[i].pc = "done" => Len(Sends(calls[i])) = 1

\* C2 (amended): such a call makes one tg_send_message call, or two: a second
\* one is made exactly when the first was the success message of a try block
\* (/set_webhook, deal creation, file upload) and raised; the second is the
\* except clause's error message and the last.  Never zero, never three, and
\* nothing is sent after a send that succeeded.
C2_OneSendOrRetryInExcept ==
    \A i \in Slots :
        Handled(i) =>
            LET c == calls[i]
                s == Sends(c)
            IN  /\ Len(s) <= 2
                /\ c.pc = "done" => Len(s) >= 1
                /\ \A k \in 1..Len(s) : s[k].ok => k = Len(s) /\ c.pc = "done"
                /\ Len(s) = 2 =>
                      /\ c.branch \in {"set_webhook", "deal", "file"}
                      /\ s[1].what \in SuccessKinds /\ ~s[1].ok
                      /\ s[2].what \notin SuccessKinds
                /\ c.pc = "done" /\ Len(s) = 1 =>
                      s[1].ok \/ s[1].what \notin SuccessKinds

\* C2, the case: the success message of a deal creation raised, the except
\* clause sent the error message, and the call returned {"ok": True}.
C2_SecondSendMade ==
    \E i \in Slots :
        /\ calls[i].pc = "done" /\ calls[i].result = "ok_true"
        /\ calls[i].branch = "deal"
        /\ Len(Sends(calls[i])) = 2
\* C3: in the deal branch the effects come in a fixed order: the Drive folders
\* (all eleven) first, then the Airtable record, then CHAT_CONTEXT[chat_id],
\* then the success message.  Airtable is called only with every folder
\* obtained, the context is written only after Airtable succeeded, and the
\* success message is sent only after both.
C3_DealCreationOrder ==
    \A i \in Slots :
        Handled(i) /\ calls[i].branch = "deal" =>
            LET c == calls[i]
                L == c.log
            IN  /\ Len(L) >= 1 /\ L[1].e = "drive_folders"
                /\ \A k \in 1..Len(L) :
                      /\ L[k].e = "drive_folders" => k = 1
                      /\ L[k].e = "airtable" => k = 2 /\ L[1].ok
                      /\ L[k].e = "context" => k = 3 /\ L[2].e = "airtable" /\ L[2].ok
                      /\ L[k].e = "send" /\ L[k].what = "deal_created" =>
                            k = 4 /\ L[3].e = "context"
                /\ (Len(L) >= 2 /\ L[2].e = "airtable") \/ c.pc = "airtable" =>
                      IsDealTree(drive, c.folders, c.client_name, c.deal_name)
                /\ Len(L) >= 3 /\ L[3].e = "context" =>
                      CHAT_CONTEXT[c.chat] =
                          NewContext(c.client_name, c.deal_name, c.folders)
                /\ c.pc = "airtable" => Len(L) = 1

\* C3, the case: a deal creation went through all four steps.
C3_AllFourSteps ==
    \E i \in Slots :
        /\ calls[i].branch = "deal" /\ calls[i].pc = "done"
        /\ Len(calls[i].log) = 4
        /\ calls[i].log[4].e = "send" /\ calls[i].log[4].ok
        /\ calls[i].log[4].what = "deal_created"

\* C5 (as stated): with the calls handled one at a time, CHAT_CONTEXT[c], when
\* present, holds the ids of the tree last obtained in Drive by a deal-creation
\* call of chat c, also when that call then failed at Airtable.
C5_HoldsLastCreatedTree ==
    \A i \in Slots :
        LET c == calls[i]
        IN  /\ Handled(i) /\ c.branch = "deal" /\ c.pc \in {"send", "done"}
            /\ c.log[1].e = "drive_folders" /\ c.log[1].ok
            /\ CHAT_CONTEXT[c.chat].present
            => /\ CHAT_CONTEXT[c.chat].deal_id = c.folders.deal_id
               /\ CHAT_CONTEXT[c.chat].deal_url.folder = c.folders.deal_url.folder
               /\ CHAT_CONTEXT[c.chat].subfolders = c.folders.subfolders

\* the last deal-creation call of its chat, its Airtable step behind it
PastAirtable(c, ok) ==
    /\ c.branch = "deal" /\ c.pc \in {"send", "done"}
    /\ Len(c.log) >= 2 /\ c.log[2].e = "airtable" /\ c.log[2].ok = ok

C5_EntryIsRegisteredTree ==
    /\ \A ch \in Chats :
          CHAT_CONTEXT[ch].present =>
              IsDealTree(drive, CHAT_CONTEXT[ch], CHAT_CONTEXT[ch].client,
                         CHAT_CONTEXT[ch].deal)
    /\ \A i \in Slots :
          LET c == calls[i]
          IN  /\ PastAirtable(c, TRUE) =>
                    CHAT_CONTEXT[c.chat] =
                        NewContext(c.client_name, c.deal_name, c.folders)
              /\ c.pc = "send" /\ c.out = "where" =>
                    c.ctx.present /\ c.ctx = CHAT_CONTEXT[c.chat]

C5_FailedCreationKeepsEntry ==
    \A i \in Slots :
        calls[i].pc = "airtable" /\ PastAirtable(calls'[i], FALSE) =>
            CHAT_CONTEXT' = CHAT_CONTEXT

\* C5 (amended): with the calls handled one at a time, CHAT_CONTEXT[c], when
\* present, holds the ids of a deal folder tree that exists in Drive, the one
\* obtained by the last deal-creation call of chat c whose Airtable step
\* succeeded, and /where reports that deal; a deal-creation call that obtained
\* its folders and then failed at Airtable leaves the entry as it was.
C5_HoldsLastRegisteredTree ==
    []C5_EntryIsRegisteredTree /\ [][C5_FailedCreationKeepsEntry]_vars

\* C5, the case: a chat with a current deal asked for another one, whose
\* folders were obtained and whose Airtable step failed; the entry is still
\* the earlier deal.
C5_FailedAfterFolders ==
    \E i \in Slots :
        /\ PastAirtable(calls[i], FALSE)
        /\ CHAT_CONTEXT[calls[i].chat].present
        /\ CHAT_CONTEXT[calls[i].chat].deal_id # calls[i].folders.deal_id
        /\ IsDealTree(drive, calls[i].folders, calls[i].client_name, calls[i].deal_name)

\* C7: when the caption holds a tag of TAG_TO_FOLDER, pick_subfolder_name
\* returns the folder of a tag it holds (of the first one in the order of
\* TAG_TO_FOLDER), whatever the file name and the MIME type are, and the file
\* is uploaded into the subfolder of that name of the chat's current deal.
C7_TagDecidesFolder ==
    \A i \in Slots :
        LET c == calls[i]
            t == Lower(c.msg.caption)
        IN  Handled(i) /\ c.branch = "file" /\ c.target_name # << >> =>
                /\ (\E k \in 1..Len(TAG_TO_FOLDER) : Contains(TAG_TO_FOLDER[k].tag, t)) =>
                       \E k \in 1..Len(TAG_TO_FOLDER) :
                           /\ Contains(TAG_TO_FOLDER[k].tag, t)
                           /\ c.target_name = TAG_TO_FOLDER[k].folder
                           /\ \A j \in 1..(k - 1) : ~Contains(TAG_TO_FOLDER[j].tag, t)
                /\ \A n \in 1..Len(c.log) :
                       c.log[n].e = "upload" =>
                           /\ c.log[n].id \in 1..Len(drive)
                           /\ drive[c.log[n].id].name = c.target_name
                           /\ drive[c.log[n].id].parent = CHAT_CONTEXT[c.chat].deal_id

\* C7, the case: a file whose caption holds #photo and whose name and MIME
\* type point at other folders was uploaded.
C7_TaggedFileUploaded ==
    \E i \in Slots :
        /\ calls[i].branch = "file"
        /\ calls[i].msg.caption = CapPhoto /\ calls[i].msg.file_name = FnDogovor
        /\ calls[i].target_name = F08
        /\ \E n \in 1..Len(calls[i].log) :
               calls[i].log[n].e = "upload" /\ calls[i].log[n].ok

C9_Frame ==
    /\ \A ch \in Chats : CHAT_CONTEXT[ch].present => CHAT_CONTEXT'[ch].present
    /\ CHAT_CONTEXT' # CHAT_CONTEXT =>
          \E i \in Slots :
              /\ calls[i].branch = "deal" /\ calls[i].pc = "airtable"
              /\ PastAirtable(calls'[i], TRUE)
              /\ CHAT_CONTEXT'[calls[i].chat].present
              /\ \A ch \in Chats \ {calls[i].chat} : CHAT_CONTEXT'[ch] = CHAT_CONTEXT[ch]

\* C9: the only step that changes CHAT_CONTEXT is the resumption of a deal
\* creation whose Airtable call succeeded, and it sets the entry of the
\* calling chat only; every other step of every branch, a rejected call and a
\* failed deal creation leave it unchanged, and an entry is never removed.
C9_OnlyDealCreationWrites == [][C9_Frame]_vars

\* C9, the case: a deal was created in one chat while the other chat has an
\* entry of its own, of another deal.
C9_WroteBesideOtherChat ==
    \E i \in Slots :
        /\ PastAirtable(calls[i], TRUE)
        /\ \E ch \in Chats \ {calls[i].chat} :
               /\ CHAT_CONTEXT[ch].present
               /\ CHAT_CONTEXT[ch].deal_id # CHAT_CONTEXT[calls[i].chat].deal_id
---------------------------------------------------------------------------
(* Calls of one chat that overlap: a call arrives while others are awaiting *)

\* the messages of the overlapping calls: two deals, /where and a tagged file
AsyncMessages ==
    {Msg(1, t, "none", << >>, << >>, << >>) : t \in {MsgDealA, MsgDealB, T_where}}
    \cup {Msg(1, << >>, "document", CapPhoto, FnDogovor, M_pdf)}

\* a call arrives, whatever the other calls are doing
ReceiveAny(i) ==
    \E m \in AsyncMessages, failAt \in {0, NoFail} :
        Receive(i, m, env.TELEGRAM_SECRET_TOKEN, failAt)

NextAsync ==
    \E i \in Slots :
        \/ ReceiveAny(i)
        \/ AirtableDone(i)
        \/ GetFileDone(i)
        \/ DownloadDone(i)
        \/ SendDone(i)
        \/ Release(i)

InitAsync == Init /\ env.TELEGRAM_SECRET_TOKEN # ""

SpecAsync == InitAsync /\ [][NextAsync]_vars
\* the call of slot i has returned {"ok": True} from a deal creation that
\* went through
CreatedDeal(i) ==
    /\ PastAirtable(calls[i], TRUE)
    /\ calls[i].pc = "done" /\ calls[i].result = "ok_true"

\* C6 (as stated): when two deal creations of one chat overlap and both have
\* completed successfully, CHAT_CONTEXT[c] holds the ids of the deal of the
\* call that ran build_deal_folders second (the one that arrived while the
\* other was suspended).
C6_LastBuiltWins ==
    \A i, j \in Slots :
        /\ i # j /\ CreatedDeal(i) /\ CreatedDeal(j)
        /\ calls[i].chat = calls[j].chat
        /\ j \in calls[i].after
        /\ \A k \in Slots \ {i, j} : calls[k].branch # "deal"
        => CHAT_CONTEXT[calls[i].chat].deal_id = calls[i].folders.deal_id

\* C6, the failing case: both calls created their deal, and the entry is the
\* deal of the call that built its folders first.
C6_FirstBuiltWon ==
    \E i, j \in Slots :
        /\ i # j /\ CreatedDeal(i) /\ CreatedDeal(j)
        /\ calls[i].chat = calls[j].chat
        /\ j \in calls[i].after
        /\ calls[i].folders.deal_id # calls[j].folders.deal_id
        /\ CHAT_CONTEXT[calls[i].chat].deal_id = calls[j].folders.deal_id

\* C8: under any interleaving of the calls of one chat, every record a
\* handler has read from CHAT_CONTEXT, and every entry of it, is the complete
\* record of one deal (client, deal, deal_id, deal_url and the eight subfolder
\* ids are those of one tree of Drive), and a file is uploaded into the deal
\* the call read at its start, whatever the entry has become since.
C8_OneDealReadAndKept ==
    /\ \A ch \in Chats :
          CHAT_CONTEXT[ch].present =>
              IsDealTree(drive, CHAT_CONTEXT[ch], CHAT_CONTEXT[ch].client,
                         CHAT_CONTEXT[ch].deal)
    /\ \A i \in Slots :
          LET c == calls[i]
          IN  /\ c.ctx.present =>
                    IsDealTree(drive, c.ctx, c.ctx.client, c.ctx.deal)
              /\ c.branch = "file" /\ c.pc \in {"get_file", "download"} => c.ctx.present
              /\ \A n \in 1..Len(c.log) :
                    c.log[n].e = "upload" =>
                        /\ c.ctx.present
                        /\ \E k \in 1..Len(c.ctx.subfolders) :
                               /\ c.ctx.subfolders[k].name = c.target_name
                               /\ c.ctx.subfolders[k].id = c.log[n].id
                        /\ drive[c.log[n].id].parent = c.ctx.deal_id

\* C8, the case: a file was uploaded after another call had replaced the
\* entry of its chat by another deal.
C8_UploadedAfterReplacement ==
    \E i \in Slots :
        /\ calls[i].branch = "file"
        /\ \E n \in 1..Len(calls[i].log) :
               calls[i].log[n].e = "upload" /\ calls[i].log[n].ok
        /\ CHAT_CONTEXT[calls[i].chat].deal_id # calls[i].ctx.deal_id
---------------------------------------------------------------------------
(* parse_request on the texts of the template                              *)

\* the longest field, in pieces
MaxPieces == 2

W_rzd == <<"RU_R", "RU_ZH", "RU_D">>
W_dlya_rzd == <<"ru_d", "ru_l", "ru_ya", " ", "RU_R", "RU_ZH", "RU_D">>
T_client == <<"RU_K", "ru_l", "ru_i", "ru_e", "ru_n", "ru_t", ":", " ">>
T_deal == <<";", " ", "RU_S", "ru_d", "ru_e", "ru_l", "ru_k", "ru_a", ":", " ">>

Pieces == {DefaultClient, DefaultDeal, W_rzd, W_dlya_rzd, <<" ">>}

RECURSIVE Concat(_)
Concat(ps) == IF ps = << >> THEN << >> ELSE Head(ps) \o Concat(Tail(ps))

\* the fields: some pieces in a row, not blank, without ';'
Fields ==
    {f \in {Concat(ps) : ps \in UNION {[1..n -> Pieces] : n \in 1..MaxPieces}} :
        Strip(f) # << >>}

Template(x, y) == T_client \o x \o T_deal \o y

ReadText ==
    /\ arg = NoArg
    /\ \E x \in Fields, y \in Fields : arg' = [x |-> x, y |-> y, text |-> Template(x, y)]
    /\ UNCHANGED <<CHAT_CONTEXT, drive, calls, env, ret>>

ParseRequest ==
    /\ arg # NoArg /\ ~ret.done
    /\ \E r \in {parse_request(arg.text)} :
          ret' = [done |-> TRUE, client |-> r.client, deal |-> r.deal]
    /\ UNCHANGED <<CHAT_CONTEXT, drive, calls, env, arg>>

ForgetText ==
    /\ ret.done
    /\ arg' = NoArg /\ ret' = NoRet
    /\ UNCHANGED <<CHAT_CONTEXT, drive, calls, env>>

InitParse ==
    /\ CHAT_CONTEXT = [ch \in Chats |-> NoContext]
    /\ drive = << >>
    /\ calls = [i \in Slots |-> IdleCall]
    /\ env = [TELEGRAM_SECRET_TOKEN |-> ""]
    /\ arg = NoArg
    /\ ret = NoRet

NextParse == ReadText \/ ParseRequest \/ ForgetText

SpecParse == InitParse /\ [][NextParse]_vars

\* C4 (as stated): for every text "Klient: X; Sdelka: Y" of the template, X
\* and Y not blank and without ';', parse_request returns X trimmed and Y
\* trimmed, also when X is "Client", Y is the default deal name, or the text
\* holds the word "dlya".
C4_ExtractsBothFields ==
    ret.done => ret.client = Strip(arg.x) /\ ret.deal = Strip(arg.y)

\* C4, the failing case: the deal is named as the default deal name is, and
\* the text (its first DealPrefix characters) comes back instead.
C4_DefaultDealNameLost ==
    /\ ret.done
    /\ arg.x = W_rzd /\ arg.y = DefaultDeal
    /\ ret.client = W_rzd
    /\ ret.deal = Prefix(arg.text, DealPrefix) /\ ret.deal # DefaultDeal
---------------------------------------------------------------------------
(* build_deal_folders, again and again with the same names                 *)

\* the creations of one tree
MaxBuilds == 3

W_kepki == <<"ru_k", "ru_e", "ru_p", "ru_k", "ru_i">>
W_romashka ==
    <<"RU_O", "RU_O", "RU_O", " ", " ", "RU_R", "ru_o", "ru_m", "ru_a", "ru_sh", "ru_k",
      "ru_a", "/", "RU_YU", "ru_g">>

\* a name of n characters with one space, at index sp
LongName(n, sp) == [k \in 1..n |-> IF k = sp THEN " " ELSE "a"]

\* deal names: a short one, and long ones whose character NameMax is a space
\* or is not
DealNames == {W_kepki, LongName(NameMax + 1, NameMax), LongName(NameMax + 1, 7)}
ClientNames == {W_rzd, W_romashka}

\* one more creation with the same names; ret: what the creations returned
BuildDealFolders ==
    /\ Len(ret) < MaxBuilds
    /\ \E failAt \in FailChoices :
       \E built \in {build_deal_folders(drive, arg.client, arg.deal, DateStr, failAt)} :
          /\ drive' = built.drive
          /\ ret' = Append(ret, [ok |-> built.ok, deal_id |-> built.deal_folder.id,
                                 subfolders |-> built.subfolders,
                                 created |-> built.created])
    /\ UNCHANGED <<CHAT_CONTEXT, calls, env, arg>>

InitFolders ==
    /\ CHAT_CONTEXT = [ch \in Chats |-> NoContext]
    /\ drive = << >>
    /\ calls = [i \in Slots |-> IdleCall]
    /\ env = [TELEGRAM_SECRET_TOKEN |-> ""]
    /\ arg \in [client : ClientNames, deal : DealNames]
    /\ ret = << >>

NextFolders == BuildDealFolders

SpecFolders == InitFolders /\ [][NextFolders]_vars

\* the folders of Drive d under parent p
Children(d, p) == {i \in 1..Len(d) : d[i].parent = p}

\* the creations that returned
Succeeded(rs) == SelectSeq(rs, LAMBDA r : r.ok)

\* C10 (as stated): after successful creations with the same client and deal
\* on the same date, Drive holds one folder 2026 under the root, one client
\* folder under it, one deal folder under that, and under that the eight fixed
\* subfolders, each once; the second and later creations create no folder and
\* return the ids the first returned.
C10_TreeCreatedOnce ==
    LET done == Succeeded(ret)
    IN  Len(done) >= 1 =>
            /\ \E y \in Children(drive, GDRIVE_ROOT_FOLDER_ID) :
                  /\ Children(drive, GDRIVE_ROOT_FOLDER_ID) = {y}
                  /\ drive[y].name = YEAR_FIXED
                  /\ \E c \in Children(drive, y) :
                        /\ Children(drive, y) = {c}
                        /\ \E f \in Children(drive, c) :
                              /\ Children(drive, c) = {f}
                              /\ Cardinality(Children(drive, f)) = Len(subfolder_names)
                              /\ \A k \in 1..Len(subfolder_names) :
                                    \E s \in Children(drive, f) :
                                        drive[s].name = subfolder_names[k]
            /\ \A n \in 2..Len(done) :
                  /\ done[n].created = 0
                  /\ done[n].deal_id = done[1].deal_id
                  /\ done[n].subfolders = done[1].subfolders

\* C10, the failing case: two creations in a row succeeded with the same
\* names, and the second made a deal folder and eight subfolders of its own.
C10_TreeCreatedTwice ==
    /\ Len(ret) = 2 /\ ret[1].ok /\ ret[2].ok
    /\ ret[2].created = 1 + Len(subfolder_names)
    /\ ret[2].deal_id # ret[1].deal_id
    /\ Cardinality(Children(drive, drive[ret[1].deal_id].parent)) = 2
---------------------------------------------------------------------------
(* Where a file may go, and what a call without the token may do           *)

\* the events of a call that fetch or store a file
FileEvents == {"get_file", "download", "upload"}

\* id is the folder the entry ctx gives for the name: the subfolder id stored
\* under it, or the deal folder when the name has no id
InEntry(ctx, name, id) ==
    \/ \E k \in 1..Len(ctx.subfolders) :
           /\ ctx.subfolders[k].name = name
           /\ ctx.subfolders[k].id = id /\ id # 0
    \/ /\ \A k \in 1..Len(ctx.subfolders) :
              ctx.subfolders[k].name = name => ctx.subfolders[k].id = 0
       /\ id = ctx.deal_id

C11_UploadsStayInEntry ==
    \A i \in Slots :
        LET c == calls[i]
        IN  Handled(i) /\ c.branch = "file" =>
                /\ ~c.ctx.present =>
                      /\ \A n \in 1..Len(c.log) : c.log[n].e \notin FileEvents
                      /\ c.pc \in {"send", "done"}
                      /\ Len(Sends(c)) >= 1 => Sends(c)[1].what = "choose_deal"
                      /\ c.pc = "send" => c.out = "choose_deal"
                /\ \A n \in 1..Len(c.log) :
                      c.log[n].e \in FileEvents => c.ctx.present
                /\ \A n \in 1..Len(c.log) :
                      c.log[n].e = "upload" =>
                          /\ InEntry(c.ctx, c.target_name, c.log[n].id)
                          /\ c.log[n].id \in
                                 {c.ctx.subfolders[k].id : k \in 1..Len(c.ctx.subfolders)}
                                 \cup {c.ctx.deal_id}

\* the record a file call keeps is the entry of its chat as the call found it
C11_ReadsEntryOfItsChat ==
    \A i \in Slots :
        calls[i].pc = "idle" /\ calls'[i].branch = "file" /\ Handled(i)' =>
            IF CHAT_CONTEXT[calls'[i].chat].present
            THEN calls'[i].ctx = CHAT_CONTEXT[calls'[i].chat]
            ELSE /\ ~calls'[i].ctx.present
                 /\ calls'[i].pc = "send" /\ calls'[i].out = "choose_deal"
                 /\ calls'[i].log = << >>

\* C11: no file goes outside the deal of its chat.  A file message of a chat
\* without an entry causes no getFile, no download and no upload, and is
\* answered by the message asking to choose a deal; with an entry, the parent
\* of the upload is the subfolder id the entry holds for the chosen name (one
\* of its eight) or, the name having no id, the entry's deal_id.  The entry is
\* the one of the chat when the call read it.
C11_NoUploadOutsideDeal ==
    []C11_UploadsStayInEntry /\ [][C11_ReadsEntryOfItsChat]_vars

\* C11, the cases: one file message was answered by the request to choose a
\* deal, and one that came once the chat had an entry was stored in a
\* subfolder of it.
C11_RefusedAndStored ==
    \E i, j \in Slots :
        /\ calls[i].branch = "file" /\ ~calls[i].ctx.present
        /\ calls[i].pc = "done" /\ calls[i].result = "ok_true"
        /\ calls[j].branch = "file" /\ calls[j].ctx.present
        /\ calls[j].chat = calls[i].chat
        /\ \E n \in 1..Len(calls[j].log) :
               /\ calls[j].log[n].e = "upload" /\ calls[j].log[n].ok
               /\ calls[j].log[n].id # calls[j].ctx.deal_id
\* the token is configured and the call of slot i did not carry it
Rejected(i) ==
    /\ calls[i].pc # "idle"
    /\ env.TELEGRAM_SECRET_TOKEN # ""
    /\ calls[i].got # env.TELEGRAM_SECRET_TOKEN

C12_RejectedDidNothing ==
    \A i \in Slots :
        /\ Rejected(i) =>
              /\ calls[i].pc = "done" /\ calls[i].result = "bad_secret"
              /\ calls[i].log = << >>
              /\ calls[i].folders = NoFolders /\ ~calls[i].ctx.present
        /\ calls[i].result = "bad_secret" => Rejected(i)
        /\ env.TELEGRAM_SECRET_TOKEN # "" /\ calls[i].log # << >> =>
              calls[i].got = env.TELEGRAM_SECRET_TOKEN

\* a step that changes Drive, CHAT_CONTEXT or the history of a call is a step
\* of a call that carried the token; the arrival of one that did not changes
\* nothing but its own slot, which holds the refusal
C12_EffectsNeedToken ==
    /\ \A i \in Slots :
          calls[i].pc = "idle" /\ Rejected(i)' =>
              /\ CHAT_CONTEXT' = CHAT_CONTEXT /\ drive' = drive
              /\ \A j \in Slots \ {i} : calls'[j] = calls[j]
    /\ env.TELEGRAM_SECRET_TOKEN # ""
       /\ (drive' # drive \/ CHAT_CONTEXT' # CHAT_CONTEXT
           \/ \E j \in Slots : Len(calls'[j].log) > Len(calls[j].log)) =>
          \E i \in Slots :
              /\ calls'[i] # calls[i]
              /\ calls'[i].got = env.TELEGRAM_SECRET_TOKEN
              /\ calls'[i].result # "bad_secret"

\* C12: with TELEGRAM_SECRET_TOKEN configured, a call whose header is absent
\* or different returns the bad-secret-token answer and has no effect: no
\* Telegram message, no Drive call, no Airtable call, CHAT_CONTEXT unchanged;
\* every effect is made by a call that carried the matching token.
C12_NoEffectWithoutToken ==
    []C12_RejectedDidNothing /\ [][C12_EffectsNeedToken]_vars

\* C12, the case: a request for a deal that came with a wrong header or
\* without the header was refused, unread, in a process that has a token and
\* a deal in CHAT_CONTEXT.
C12_RefusedWithDealPresent ==
    /\ env.TELEGRAM_SECRET_TOKEN # ""
    /\ \E ch \in Chats : CHAT_CONTEXT[ch].present
    /\ \E i \in Slots :
          /\ calls[i].result = "bad_secret"
          /\ calls[i].got \in {"", "wrong"}
          /\ calls[i].msg.text = MsgDealA /\ calls[i].branch = "none"

=============================================================================
